---- MODULE Spec2Model ----
(***************************************************************************)
(* A model of bocho.py: the bocho() function that slices a PDF into        *)
(* per-page PNG files, stacks the pages on a canvas and saves a preview.   *)
(*                                                                         *)
(* The file system is modelled by outFile (the output PNG) and tmpFiles    *)
(* (the per-page PNG files, indexed by page number - 1).  One call of      *)
(* bocho() is a sequence of steps, one per block of the function; pc is    *)
(* the position in the function.  The locals of the function keep their    *)
(* names.                                                                  *)
(*                                                                         *)
(* Numbers.  The program is Python 2: "/" on two ints is floor division,   *)
(* round() rounds halves away from zero.  A float is modelled by an exact  *)
(* number (p + q * sqrt(r)) / d * Huge^e, Huge the tangent of 90 degrees   *)
(* in double precision.  A nominal spacing is given in units of 1/SpDen    *)
(* pixel: spacing = <<3, 0>> with SpDen = 2 stands for the Python tuple    *)
(* (1.5, 0).  math.cos and math.tan are exact for the angles of Angles.    *)
(***************************************************************************)
EXTENDS Integers, Sequences, FiniteSets, TLC

\* ---------------------------------------------------------------- bounds
MaxPage == 3        \* page numbers are 1..MaxPage
MaxRuns == 2        \* successive calls of bocho() with the same arguments
MaxSlice == 3       \* rasterised page heights are 1..MaxSlice pixels
MaxSpacing == 3     \* nominal x spacings are -1/SpDen .. MaxSpacing/SpDen
SpDen == 2          \* a spacing unit is 1/SpDen pixel

\* The angles (degrees) the model calls bocho() with.
Angles == {-91, -90, -60, -45, -30, 0, 30, 45, 60, 90, 91}

\* ------------------------------------------------------------ arithmetic
\* math.tan(math.radians(90)) in double precision, 16331239353195370, as the
\* two halves of its decimal digits: Huge[1] * 10^8 + Huge[2].  It is more
\* than twice any number the integers of the model can hold.
Huge == <<163312393, 53195370>>

\* A float is the number (p + q * sqrt(r)) / d * Huge^e, written
\* <<p, q, r, d, e>>, with integers p, q, e, a radicand r in {1, 2, 3} and
\* d > 0; q = 0 and r = 1 for a rational, e = 0 but for the values that come
\* from the cosine and the tangent of 90 degrees.  The cosines and tangents
\* of 0, 30, 45, 60 and 90 degrees are such numbers, and so is every value
\* bocho() computes from them.
Abs(i) == IF i < 0 THEN -i ELSE i

RECURSIVE GCD(_, _)
GCD(i, j) == IF j = 0 THEN i ELSE GCD(j, i % j)

\* <<p, q, r, d, e>> in lowest terms.
Norm(v) ==
    LET g == GCD(GCD(Abs(v[1]), Abs(v[2])), v[4])
    IN  <<v[1] \div g, v[2] \div g, IF v[2] = 0 THEN 1 ELSE v[3], v[4] \div g,
          IF v[1] = 0 /\ v[2] = 0 THEN 0 ELSE v[5]>>

\* The rational i / j, j > 0.
Rat(i, j) == Norm(<<i, 0, 1, j, 0>>)

\* The float of the int i.
Whole(i) == Rat(i, 1)

\* The sign (-1, 0, 1) of p + q * sqrt(r).
Sign(p, q, r) ==
    CASE q = 0 \/ r = 1 -> IF p + q > 0 THEN 1 ELSE IF p + q < 0 THEN -1 ELSE 0
      [] p >= 0 /\ q > 0 -> 1
      [] p <= 0 /\ q < 0 -> -1
      [] p > 0 /\ q < 0 -> IF p * p > r * q * q THEN 1 ELSE -1
      [] OTHER -> IF p * p < r * q * q THEN 1 ELSE -1

\* -v
Neg(v) == <<-v[1], -v[2], v[3], v[4], v[5]>>

\* The radicand of a product or quotient of v and w.
Radicand(v, w) == IF v[2] = 0 THEN w[3] ELSE v[3]

\* v * w
Mul(v, w) ==
    LET r == Radicand(v, w)
    IN  Norm(<<v[1] * w[1] + r * v[2] * w[2], v[1] * w[2] + v[2] * w[1], r,
               v[4] * w[4], v[5] + w[5]>>)

\* v * k for an int k.
RMul(v, k) == Mul(v, Whole(k))

\* 1 / w, w # 0: d * (p - q * sqrt(r)) / (p * p - r * q * q) * Huge^(-e).
Inverse(w) ==
    LET norm == w[1] * w[1] - w[3] * w[2] * w[2]
    IN  IF norm > 0
        THEN Norm(<<w[4] * w[1], -(w[4] * w[2]), w[3], norm, -w[5]>>)
        ELSE Norm(<<-(w[4] * w[1]), w[4] * w[2], w[3], -norm, -w[5]>>)

\* v / w
RDiv(v, w) == Mul(v, Inverse(w))

\* abs(v)
RAbs(v) == IF Sign(v[1], v[2], v[3]) < 0 THEN Neg(v) ELSE v

\* The largest integer m >= 0 with m <= v, for v >= 0.  A v with a negative
\* power of Huge is less than 1/2.
Floor(v) ==
    LET hi == (Abs(v[1]) + Abs(v[2]) * v[3]) \div v[4] + 1
    IN  IF v[5] < 0 THEN 0
        ELSE CHOOSE m \in 0..hi :
                /\ v[5] = 0
                /\ Sign(v[1] - v[4] * m, v[2], v[3]) >= 0
                /\ Sign(v[1] - v[4] * (m + 1), v[2], v[3]) < 0

\* v + 1/2, for a v without a power of Huge.
PlusHalf(v) ==
    IF v[5] # 0 THEN v
    ELSE <<2 * v[1] + v[4], 2 * v[2], v[3], 2 * v[4], 0>>

\* round(): Python 2 rounds to the nearest integer, halves away from zero.
round(v) ==
    IF Sign(v[1], v[2], v[3]) >= 0 THEN Floor(PlusHalf(v))
    ELSE -Floor(PlusHalf(Neg(v)))

\* px(number): int(round(number)).
px(v) == round(v)

\* math.cos(math.radians(a)): 1, sqrt(3)/2, sqrt(2)/2, 1/2 and, for 90
\* degrees, 1/Huge (6.123233995736766e-17 in double precision).  The double
\* precision values are within 2e-16 of these; the products bocho() rounds
\* come out the same.
cos(a) ==
    CASE a = 0 -> <<1, 0, 1, 1, 0>>
      [] Abs(a) = 30 -> <<0, 1, 3, 2, 0>>
      [] Abs(a) = 45 -> <<0, 1, 2, 2, 0>>
      [] Abs(a) = 60 -> <<1, 0, 1, 2, 0>>
      [] Abs(a) = 90 -> <<1, 0, 1, 1, -1>>

\* math.tan(math.radians(a)): 0, sqrt(3)/3, 1, sqrt(3) and, for 90 degrees,
\* Huge (1.633123935319537e+16 in double precision).
tan(a) ==
    CASE a = 0 -> <<0, 0, 1, 1, 0>>
      [] a = 30 -> <<0, 1, 3, 3, 0>>
      [] a = -30 -> <<0, -1, 3, 3, 0>>
      [] a = 45 -> <<1, 0, 1, 1, 0>>
      [] a = -45 -> <<-1, 0, 1, 1, 0>>
      [] a = 60 -> <<0, 1, 3, 1, 0>>
      [] a = -60 -> <<0, -1, 3, 1, 0>>
      [] a = 90 -> <<1, 0, 1, 1, 1>>
      [] a = -90 -> <<-1, 0, 1, 1, 1>>

\* ------------------------------------------------------- sequence helpers
Range(s) == {s[i] : i \in 1..Len(s)}

Max(S) == CHOOSE m \in S : \A e \in S : e <= m

\* list.sort(reverse=True): insertion of each element into a descending list.
RECURSIVE InsertDesc(_, _)
InsertDesc(s, e) ==
    IF s = <<>> THEN <<e>>
    ELSE IF e > Head(s) THEN <<e>> \o s
    ELSE <<Head(s)>> \o InsertDesc(Tail(s), e)

RECURSIVE SortDesc(_)
SortDesc(s) == IF s = <<>> THEN <<>> ELSE InsertDesc(SortDesc(Tail(s)), Head(s))

\* All sequences over S of length 1..k.
SeqsUpTo(S, k) == UNION {[1..m -> S] : m \in 1..k}

\* ------------------------------------------------ the pure parts of bocho()
\* seq[i] with Python's indexing: from 0, negative indices count from the end.
Idx(s, i) == IF i < 0 THEN s[Len(s) + i + 1] ELSE s[i + 1]

\* AngleOK with the bounds excluded.
AngleOK_Strict(angle) == -90 < angle /\ angle < 90

\* assert -90 <= angle <= 90
AngleOK(angle) == -90 <= angle /\ angle <= 90

\* The spacing after the correction for the angle: <<x_spacing, y_spacing>>.
EffSpacing(spacing, angle) ==
    LET x0 == Rat(spacing[1], SpDen)
        y0 == Rat(spacing[2], SpDen)
        y1 == Mul(x0, cos(angle))
        x1 == RAbs(RDiv(y1, tan(angle)))
    IN  IF angle # 0 THEN <<x1, y1>> ELSE <<x0, y0>>

\* The indices of the per-page files '<base>-page-<p - 1>.png'.
tmp_image_names(pages) == [i \in 1..Len(pages) |-> pages[i] - 1]

\* scale = slice_size[1] / height, on two ints.
Scale(slice_size, height) == slice_size[2] \div height

\* ScaledSpacing with int() in the place of px(): truncation towards zero.
ScaledSpacing_Int(sp, scale) ==
    LET v == RMul(sp, scale)
    IN  IF Sign(v[1], v[2], v[3]) >= 0 THEN Floor(v)
        ELSE -Floor(Neg(v))

\* x_spacing = px(x_spacing * scale)
ScaledSpacing(sp, scale) == px(RMul(sp, scale))

\* x_coords = map(int, [i * x_spacing for i in range(n)])
XCoords(n, x_spacing) == [i \in 1..n |-> (i - 1) * x_spacing]

\* YCoords without the sort for a negative angle.
YCoords_NoSort(n, y_spacing, angle) == [i \in 1..n |-> (i - 1) * y_spacing]

\* y_coords, sorted in descending order for a negative angle.
YCoords(n, y_spacing, angle) ==
    LET ys == [i \in 1..n |-> (i - 1) * y_spacing]
    IN  IF angle < 0 THEN SortDesc(ys) ELSE ys

\* The size of the canvas the pages are pasted on.
CanvasSize(width, height, scale, angle, n, page_width, page_height, xsp, ycs) ==
    IF angle # 0
    THEN <<page_width + (n - 1) * xsp, page_height + Max(Range(ycs))>>
    ELSE <<px(Whole(width * scale)), px(Whole(height * scale))>>

\* The size of _add_border(img, width=border).
AddBorderSize(imgsize, width) ==
    IF width = 0 \/ width < 0 THEN imgsize
    ELSE <<imgsize[1] + width * 2, imgsize[2] + width * 2>>

\* PasteCoords with the two branches exchanged.
PasteCoords_Swapped(x, reverse, x_coords, y_coords) ==
    IF reverse THEN <<Idx(x_coords, -x), Idx(y_coords, -x)>>
    ELSE <<Idx(x_coords, x - 1), Idx(y_coords, x - 1)>>

\* The coordinates the x-th page of reversed(page_images) is pasted at.
PasteCoords(x, reverse, x_coords, y_coords) ==
    IF reverse THEN <<Idx(x_coords, x - 1), Idx(y_coords, x - 1)>>
    ELSE <<Idx(x_coords, -x), Idx(y_coords, -x)>>

\* The coordinates of the pastes of a whole run with arguments kw on pages of
\* size slice, in the order of the paste loop (x = 1..n).
RunCoords(kw, slice) ==
    LET m == Len(kw.pages)
        eff == EffSpacing(kw.spacing, kw.angle)
        sc == Scale(slice, kw.height)
        xs == ScaledSpacing(eff[1], sc)
        ys == ScaledSpacing(eff[2], sc)
    IN  [i \in 1..m |->
            PasteCoords(i, kw.reverse, XCoords(m, xs), YCoords(m, ys, kw.angle))]

\* ------------------------------------------------------- the file system
\* A per-page file that does not exist.
None == "none"

Exists(files, name) == files[name] # None

\* The output file: absent, left by an earlier program ("old"), or saved by a
\* run; the fields of an absent and of an old file are blank.
NoFile == [kind |-> "none", size |-> <<0, 0>>, placed |-> <<>>, angle |-> 0]

OldFile == [kind |-> "old", size |-> <<0, 0>>, placed |-> <<>>, angle |-> 0]

\* ReuseExisting without the test that every file exists.
ReuseExisting_Any(names, files, reuse) == reuse

\* all(map(os.path.exists, tmp_image_names)) and reuse
ReuseExisting(names, files, reuse) ==
    (\A i \in 1..Len(names) : Exists(files, names[i])) /\ reuse

\* any(map(os.path.exists, tmp_image_names))
AnyExists(names, files) == \E i \in 1..Len(names) : Exists(files, names[i])

\* OutputBlocked with the delete flag read the wrong way round.
OutputBlocked_Flipped(file, delete) == file # NoFile /\ delete

\* The output file exists and delete was not requested.
OutputBlocked(file, delete) == file # NoFile /\ ~delete

\* The per-page files after the loop that removes those that exist.
RemoveAll(names, files) ==
    [f \in DOMAIN files |-> IF f \in Range(names) THEN None ELSE files[f]]

\* The per-page files after the rasterizer wrote one file per requested page,
\* under the names tmp_image_names expects ('<base>-page-<p - 1>.png').
Rasterize(names, files) ==
    [f \in DOMAIN files |-> IF f \in Range(names) THEN "new" ELSE files[f]]

\* KeepPages with the reuse flag read the wrong way round.
KeepPages_Flipped(reuse) == ~reuse

\* The per-page files are left in place at the end of the run.
KeepPages(reuse) == reuse

\* ------------------------------------------------------------------ state
VARIABLES
    kwargs,        \* the arguments of the call
    docSize,       \* <<width, height>> of a page the rasterizer produces
    outFile,       \* the output file: NoFile, OldFile or what a run saved
    tmpFiles,      \* per-page files by index: None, "old" or "new"
    rasterCalls,   \* the number of times the rasterizer was invoked
    pc,            \* the position in bocho()
    error,         \* the exception the call raised, "none" so far
    x_spacing, y_spacing,   \* floats, whole numbers once scaled
    page_images,   \* the contents of the per-page files opened
    scale, x_coords, y_coords, size,
    x,             \* the counter of the paste loop
    placed,        \* the pastes done, in order
    k,             \* the position of the cleanup loop in tmp_image_names
    run,           \* the number of the call, from 1
    startOut, startTmp, startRaster,   \* the files when the call began
    hist           \* one record per call that ended

vars == <<kwargs, docSize, outFile, tmpFiles, rasterCalls, pc, error,
          x_spacing, y_spacing, page_images, scale, x_coords, y_coords, size,
          x, placed, k, run, startOut, startTmp, startRaster, hist>>

locals == <<x_spacing, y_spacing, page_images, scale, x_coords, y_coords,
            size, x, placed, k>>

files == <<outFile, tmpFiles, rasterCalls>>

start == <<startOut, startTmp, startRaster>>

n == Len(kwargs.pages)

names == tmp_image_names(kwargs.pages)

TmpIdx == 0..(MaxPage - 1)

\* Calls that vary the pages, the files and the flags.
FileCalls ==
    [pages : SeqsUpTo(1..MaxPage, 2), width : {3}, height : {1},
     angle : {-91, 0, 30, 91}, spacing : {<<SpDen, 0>>}, border : {0},
     reverse : {FALSE}, reuse : BOOLEAN, delete : BOOLEAN]

\* Calls that vary the geometry, on the first pages of the document.
GeometryCalls ==
    [pages : {[i \in 1..m |-> i] : m \in 1..MaxPage}, width : {3},
     height : {1, 2}, angle : Angles \ {-91, 91},
     spacing : (-1..MaxSpacing) \X {0, 1}, border : {0, 1},
     reverse : BOOLEAN, reuse : {FALSE}, delete : {FALSE}]

InitLocals ==
    /\ x_spacing = Whole(0) /\ y_spacing = Whole(0)
    /\ page_images = <<>> /\ scale = 0
    /\ x_coords = <<>> /\ y_coords = <<>> /\ size = <<0, 0>>
    /\ x = 0 /\ placed = <<>> /\ k = 0

Init ==
    /\ \/ /\ kwargs \in FileCalls
          /\ docSize = <<2, 2>>
          /\ outFile \in {NoFile, OldFile}
          /\ tmpFiles \in [TmpIdx -> {None, "old"}]
       \/ /\ kwargs \in GeometryCalls
          /\ docSize \in {2} \X (1..MaxSlice)
          /\ outFile = NoFile
          /\ tmpFiles = [f \in TmpIdx |-> None]
    /\ rasterCalls = 0
    /\ pc = "assert" /\ error = "none"
    /\ InitLocals
    /\ run = 1
    /\ startOut = outFile /\ startTmp = tmpFiles /\ startRaster = 0
    /\ hist = <<>>

\* The record of the call that ends with exception e ("none": it returned)
\* and leaves the output file out.
Ended(e, out) ==
    Append(hist, [error |-> e, out |-> out, startOut |-> startOut,
                  startTmp |-> startTmp])

\* raise e
Raise(e) ==
    /\ pc' = "raised" /\ error' = e
    /\ hist' = Ended(e, outFile)

\* ---------------------------------------------------------------- actions
\* assert -90 <= angle <= 90
AssertAngle ==
    /\ pc = "assert"
    /\ IF AngleOK(kwargs.angle)
       THEN pc' = "output" /\ UNCHANGED <<error, hist>>
       ELSE Raise("AssertionError")
    /\ UNCHANGED <<kwargs, docSize, files, locals, run, start>>

\* The output file: raise if it exists, or remove it when delete is set.
CheckOutput ==
    /\ pc = "output"
    /\ IF OutputBlocked(outFile, kwargs.delete)
       THEN Raise("OutputExists") /\ UNCHANGED outFile
       ELSE /\ outFile' = NoFile
            /\ pc' = "spacing"
            /\ UNCHANGED <<error, hist>>
    /\ UNCHANGED <<kwargs, docSize, tmpFiles, rasterCalls, locals, run, start>>

\* n, x_spacing, y_spacing and the correction of the spacing for the angle.
Spacing ==
    /\ pc = "spacing"
    /\ x_spacing' = EffSpacing(kwargs.spacing, kwargs.angle)[1]
    /\ y_spacing' = EffSpacing(kwargs.spacing, kwargs.angle)[2]
    /\ pc' = "pages"
    /\ UNCHANGED <<kwargs, docSize, files, error, page_images, scale, x_coords,
                   y_coords, size, x, placed, k, run, start, hist>>

\* The per-page files are all there and reuse is set: nothing to convert.
ReusePages ==
    /\ pc = "pages"
    /\ ReuseExisting(names, tmpFiles, kwargs.reuse)
    /\ pc' = "compose"
    /\ UNCHANGED <<kwargs, docSize, files, error, locals, run, start, hist>>

\* Some per-page file exists and delete is not set.
StalePages ==
    /\ pc = "pages"
    /\ ~ReuseExisting(names, tmpFiles, kwargs.reuse)
    /\ AnyExists(names, tmpFiles)
    /\ ~kwargs.delete
    /\ Raise("StalePages")
    /\ UNCHANGED <<kwargs, docSize, files, locals, run, start>>

\* The per-page files that exist are removed (delete), then the rasterizer
\* converts the requested pages and saves one file per page.
ConvertPages ==
    /\ pc = "pages"
    /\ ~ReuseExisting(names, tmpFiles, kwargs.reuse)
    /\ AnyExists(names, tmpFiles) => kwargs.delete
    /\ tmpFiles' = Rasterize(names,
            IF AnyExists(names, tmpFiles) THEN RemoveAll(names, tmpFiles)
            ELSE tmpFiles)
    /\ rasterCalls' = rasterCalls + 1
    /\ pc' = "compose"
    /\ UNCHANGED <<kwargs, docSize, outFile, error, locals, run, start, hist>>

\* The pages are opened, the scale, the scaled spacing, the coordinates and
\* the canvas are computed.
Compose ==
    /\ pc = "compose"
    /\ page_images' = [i \in 1..n |-> tmpFiles[names[i]]]
    /\ LET slice_size == docSize
           sc == Scale(slice_size, kwargs.height)
           xs == ScaledSpacing(x_spacing, sc)
           ys == ScaledSpacing(y_spacing, sc)
           page_width == px(Whole(slice_size[1]))
           page_height == px(Whole(slice_size[2]))
           ycs == YCoords(n, ys, kwargs.angle)
       IN  /\ scale' = sc
           /\ x_spacing' = Whole(xs)
           /\ y_spacing' = Whole(ys)
           /\ x_coords' = XCoords(n, xs)
           /\ y_coords' = ycs
           /\ size' = CanvasSize(kwargs.width, kwargs.height, sc, kwargs.angle,
                                 n, page_width, page_height, xs, ycs)
    /\ x' = 1
    /\ placed' = <<>>
    /\ pc' = "paste"
    /\ UNCHANGED <<kwargs, docSize, files, error, k, run, start, hist>>

\* One turn of the loop over enumerate(reversed(page_images), 1).
Paste ==
    /\ pc = "paste"
    /\ placed' = Append(placed,
          [x |-> x,
           index |-> n - x,
           page |-> Idx(kwargs.pages, -x),
           img |-> Idx(page_images, n - x),
           size |-> AddBorderSize(docSize, kwargs.border),
           coords |-> PasteCoords(x, kwargs.reverse, x_coords, y_coords)])
    /\ IF x < n THEN x' = x + 1 /\ UNCHANGED <<pc, k>>
       ELSE x' = x /\ pc' = "cleanup" /\ k' = 1
    /\ UNCHANGED <<kwargs, docSize, files, error, x_spacing, y_spacing,
                   page_images, scale, x_coords, y_coords, size, run, start,
                   hist>>

\* reuse: the per-page files are left in place.
LeavePages ==
    /\ pc = "cleanup"
    /\ KeepPages(kwargs.reuse)
    /\ pc' = "save"
    /\ UNCHANGED <<kwargs, docSize, files, error, locals, run, start, hist>>

\* os.remove(tmp) of a file that exists.
RemovePage ==
    /\ pc = "cleanup"
    /\ ~KeepPages(kwargs.reuse)
    /\ Exists(tmpFiles, names[k])
    /\ tmpFiles' = [tmpFiles EXCEPT ![names[k]] = None]
    /\ IF k < n THEN k' = k + 1 /\ UNCHANGED pc
       ELSE k' = k /\ pc' = "save"
    /\ UNCHANGED <<kwargs, docSize, outFile, rasterCalls, error, x_spacing,
                   y_spacing, page_images, scale, x_coords, y_coords, size, x,
                   placed, run, start, hist>>

\* os.remove(tmp) of a file an earlier turn removed: a page requested twice.
RemoveMissing ==
    /\ pc = "cleanup"
    /\ ~KeepPages(kwargs.reuse)
    /\ ~Exists(tmpFiles, names[k])
    /\ Raise("OSError")
    /\ UNCHANGED <<kwargs, docSize, files, locals, run, start>>

\* What the rotation, the crop and the resize make of the canvas is a function
\* of the canvas, the pastes and the angle: the saved file is that triple.
Output ==
    [kind |-> "saved", size |-> size, placed |-> placed, angle |-> kwargs.angle]

\* The transformations of the canvas, outfile.save(file_path) and the return.
Save ==
    /\ pc = "save"
    /\ outFile' = Output
    /\ pc' = "returned"
    /\ hist' = Ended("none", Output)
    /\ UNCHANGED <<kwargs, docSize, tmpFiles, rasterCalls, error, locals, run,
                   start>>

\* The caller calls bocho() again with the same arguments.
Rerun ==
    /\ pc \in {"returned", "raised"}
    /\ run < MaxRuns
    /\ run' = run + 1
    /\ pc' = "assert" /\ error' = "none"
    /\ x_spacing' = Whole(0) /\ y_spacing' = Whole(0)
    /\ page_images' = <<>> /\ scale' = 0
    /\ x_coords' = <<>> /\ y_coords' = <<>> /\ size' = <<0, 0>>
    /\ x' = 0 /\ placed' = <<>> /\ k' = 0
    /\ startOut' = outFile /\ startTmp' = tmpFiles /\ startRaster' = rasterCalls
    /\ UNCHANGED <<kwargs, docSize, files, hist>>

Next ==
    \/ AssertAngle
    \/ CheckOutput
    \/ Spacing
    \/ ReusePages
    \/ StalePages
    \/ ConvertPages
    \/ Compose
    \/ Paste
    \/ LeavePages
    \/ RemovePage
    \/ RemoveMissing
    \/ Save
    \/ Rerun

Spec == Init /\ [][Next]_vars

\* The shape of the state.
TypeOK ==
    /\ pc \in {"assert", "output", "spacing", "pages", "compose", "paste",
               "cleanup", "save", "returned", "raised"}
    /\ error \in {"none", "AssertionError", "OutputExists", "StalePages",
                  "OSError"}
    /\ run \in 1..MaxRuns
    /\ Len(hist) \in {run - 1, run}
    /\ pc = "raised" <=> error # "none"

\* ------------------------------------------------------------- properties
\* The files are what they were when the call began.
NothingHappened ==
    outFile = startOut /\ tmpFiles = startTmp /\ rasterCalls = startRaster

\* The call went through the assertion and the output-file check.
PassedChecks ==
    \/ pc \in {"spacing", "pages", "compose", "paste", "cleanup", "save",
               "returned"}
    \/ pc = "raised" /\ error \in {"StalePages", "OSError"}

\* The call went through the block that reuses or converts the pages.
PagesDecided ==
    \/ pc \in {"compose", "paste", "cleanup", "save", "returned"}
    \/ pc = "raised" /\ error \in {"StalePages", "OSError"}

\* The call computed the scale, the coordinates and the canvas.
Composed ==
    \/ pc \in {"paste", "cleanup", "save", "returned"}
    \/ pc = "raised" /\ error = "OSError"

\* C1: a call made while the output file exists, with delete false, never
\* gets past the output-file check: it can only end with an exception, and
\* at every point of it the output file, the per-page files and the number
\* of rasterizer invocations are what they were when the call began.
C1_OutputExistsNothingHappens ==
    (startOut # NoFile /\ ~kwargs.delete) =>
        /\ pc \in {"assert", "output", "raised"}
        /\ pc = "raised" => error \in {"AssertionError", "OutputExists"}
        /\ NothingHappened

\* C1 witness: the call raised on the existing output file, with reuse set
\* and a per-page file of a requested page on disk.
C1_Witness ==
    /\ pc = "raised" /\ error = "OutputExists"
    /\ kwargs.reuse
    /\ \E i \in 1..n : startTmp[names[i]] # None

\* C2 as stated: a call that passed the angle and output-file checks raises
\* the stale-pages error if and only if some per-page file of a requested
\* page existed and neither reuse nor delete was set.
C2_Original ==
    PagesDecided =>
        (error = "StalePages" <=>
            /\ \E i \in 1..n : startTmp[names[i]] # None
            /\ ~kwargs.reuse
            /\ ~kwargs.delete)

\* C2 amended: a call that passed the angle and output-file checks raises
\* the stale-pages error if and only if some per-page file of a requested
\* page existed, delete was not set, and reuse was not set or some per-page
\* file of a requested page was missing.
C2_StaleIffNotDeleteNotReusable ==
    PagesDecided =>
        (error = "StalePages" <=>
            /\ \E i \in 1..n : startTmp[names[i]] # None
            /\ ~kwargs.delete
            /\ ~kwargs.reuse \/ \E i \in 1..n : startTmp[names[i]] = None)

\* C2 witness: the stale-pages error of a call with reuse set.
C2_Witness ==
    pc = "raised" /\ error = "StalePages" /\ kwargs.reuse

\* C3: when a call returns, the per-page files of the requested pages are
\* all gone if reuse is false and all there if reuse is true; the files
\* that were there when a call with reuse began are untouched if they were
\* all there.
C3_PagesRemovedUnlessReuse ==
    pc = "returned" =>
        /\ ~kwargs.reuse => \A i \in 1..n : tmpFiles[names[i]] = None
        /\ kwargs.reuse => \A i \in 1..n : tmpFiles[names[i]] # None
        /\ (kwargs.reuse /\ \A i \in 1..n : startTmp[names[i]] # None)
               => tmpFiles = startTmp

\* C3 witness: a call for two pages returned with reuse false after the
\* rasterizer created the files.
C3_Witness ==
    /\ pc = "returned" /\ ~kwargs.reuse /\ n = 2
    /\ rasterCalls = startRaster + 1

\* C4 as stated: from no output file and no per-page file, two successive
\* calls with the same arguments, a valid angle and delete set both return,
\* and the second saves the same output as the first.
C4_Idempotent ==
    (/\ Len(hist) >= 2
     /\ kwargs.delete
     /\ AngleOK(kwargs.angle)
     /\ hist[1].startOut = NoFile
     /\ \A f \in TmpIdx : hist[1].startTmp[f] = None) =>
        /\ hist[1].error = "none"
        /\ hist[2].error = "none"
        /\ hist[2].out = hist[1].out

\* C4 on page lists that name no page twice: both calls return and the second
\* saves what the first saved.  With any page list, neither call raises a
\* file-exists error and both end the same way.
IdempotentWithoutRepeats ==
    (/\ Len(hist) >= 2
     /\ kwargs.delete
     /\ hist[1].startOut = NoFile
     /\ \A f \in TmpIdx : hist[1].startTmp[f] = None) =>
        /\ \A r \in 1..2 : hist[r].error \notin {"OutputExists", "StalePages"}
        /\ hist[2].error = hist[1].error
        /\ hist[2].out = hist[1].out
        /\ (/\ AngleOK(kwargs.angle)
            /\ Cardinality(Range(kwargs.pages)) = n) =>
               hist[1].error = "none" /\ hist[1].out.kind = "saved"

\* C5: a call with an angle outside [-90, 90] ends at the assertion and
\* leaves the output file, the per-page files and the rasterizer alone; a
\* call with an angle inside [-90, 90] never raises the assertion error.
C5_InvalidAngleNoSideEffect ==
    /\ ~(-90 <= kwargs.angle /\ kwargs.angle <= 90) =>
          /\ pc \in {"assert", "raised"}
          /\ pc = "raised" => error = "AssertionError"
          /\ NothingHappened
    /\ (-90 <= kwargs.angle /\ kwargs.angle <= 90) =>
          error # "AssertionError"

\* C5 witness: the assertion failed in a call with delete set while the
\* output file and a per-page file exist.
C5_Witness ==
    /\ pc = "raised" /\ error = "AssertionError"
    /\ kwargs.delete /\ outFile # NoFile
    /\ \E f \in TmpIdx : tmpFiles[f] # None

\* coordinates[i], i from 0: the i-th entry of the coordinate list.
Coordinate(i) == <<x_coords[i + 1], y_coords[i + 1]>>

\* The position of a pasted page counted from the front of the document: the
\* first requested page is 1, the last is n.
FrontPosition(p) == p.index + 1

\* The paste loop pastes the page_images entry it says it pastes: the page at
\* front position f is kwargs.pages[f], and the pastes of a finished loop are
\* those RunCoords computes.
PasteLoopConsistent ==
    Composed =>
        /\ \A j \in 1..Len(placed) :
              /\ placed[j].page = kwargs.pages[FrontPosition(placed[j])]
              /\ placed[j].coords = RunCoords(kwargs, docSize)[j]
        /\ pc # "paste" => Len(placed) = n

\* C6 as stated: the page at position f from the front is pasted at
\* coordinates[n - f] when reverse is false and at coordinates[f - 1] when
\* reverse is true.
C6_Original ==
    Composed =>
        \A j \in 1..Len(placed) :
            LET f == FrontPosition(placed[j])
            IN  placed[j].coords =
                    IF kwargs.reverse THEN Coordinate(f - 1)
                    ELSE Coordinate(n - f)

\* C6 amended: the page at position f from the front (the page kwargs.pages[f])
\* is pasted at coordinates[f - 1] when reverse is false and at
\* coordinates[n - f] when reverse is true; with b = n + 1 - f, its position
\* from the back, that is coordinates[n - b] and coordinates[b - 1].
C6_PositionFromBack ==
    Composed =>
        \A j \in 1..Len(placed) :
            LET f == FrontPosition(placed[j])
                b == n + 1 - f
            IN  /\ placed[j].page = kwargs.pages[f]
                /\ placed[j].coords =
                      IF kwargs.reverse THEN Coordinate(n - f)
                      ELSE Coordinate(f - 1)
                /\ placed[j].coords =
                      IF kwargs.reverse THEN Coordinate(b - 1)
                      ELSE Coordinate(n - b)

\* C6 witness: three pages pasted at three different coordinates, reverse
\* false.
C6_Witness ==
    /\ pc = "cleanup" /\ n = 3 /\ ~kwargs.reverse
    /\ x_coords[2] > 0 /\ Len(placed) = 3

\* The call has angle 0 and a nominal spacing (sx, 0).
FlatCall == kwargs.angle = 0 /\ kwargs.spacing[2] = 0

\* C7 as stated: with angle 0 and spacing (sx, 0), the i-th coordinate is
\* (round(i * sx * scale), 0).
C7_Original ==
    (Composed /\ FlatCall) =>
        \A i \in 0..(n - 1) :
            Coordinate(i) =
                <<round(Rat(i * kwargs.spacing[1] * scale, SpDen)), 0>>

\* C7 amended: with angle 0 and spacing (sx, 0), the i-th coordinate is
\* (i * round(sx * scale), 0); it is (round(i * sx * scale), 0) when sx is a
\* whole number of pixels.
C7_MultipleOfRoundedSpacing ==
    (Composed /\ FlatCall) =>
        \A i \in 0..(n - 1) :
            /\ Coordinate(i) =
                  <<i * round(Rat(kwargs.spacing[1] * scale, SpDen)), 0>>
            /\ kwargs.spacing[1] % SpDen = 0 =>
                  Coordinate(i) =
                      <<round(Rat(i * kwargs.spacing[1] * scale, SpDen)), 0>>

\* C7 witness: three pages, angle 0, a spacing of (1/SpDen, 0) pixel that is
\* not a whole number, scale 1.
C7_Witness ==
    /\ pc = "paste" /\ FlatCall /\ n = 3
    /\ kwargs.spacing[1] = 1 /\ SpDen > 1 /\ scale = 1

\* The pastes of the run with the angle negated and reverse false.
MirrorRun ==
    RunCoords([kwargs EXCEPT !.angle = -kwargs.angle, !.reverse = FALSE],
              docSize)

\* The call has an angle -A, 0 < A < 90, and reverse set, and pasted its pages.
NegativeReversedRun ==
    /\ Composed /\ Len(placed) = n
    /\ -90 < kwargs.angle /\ kwargs.angle < 0
    /\ kwargs.reverse

\* C8 as stated: the run with angle -A and reverse pastes each page at the x
\* the run with angle A and no reverse pastes it at, and at max_y - y for
\* that run's y.
C8_Original ==
    NegativeReversedRun =>
        LET max_y == Max({MirrorRun[j][2] : j \in 1..n})
        IN  \A j \in 1..n :
                placed[j].coords = <<MirrorRun[j][1], max_y - MirrorRun[j][2]>>

\* C8 amended: the run with angle -A and reverse pastes each page at
\* max_x - x for the x the run with angle A and no reverse pastes it at
\* (max_x the largest x of the stack), and, when the nominal x spacing is not
\* negative, at the same y.
C8_HorizontalMirror ==
    NegativeReversedRun =>
        LET max_x == Max({MirrorRun[j][1] : j \in 1..n})
        IN  \A j \in 1..n :
                /\ placed[j].coords[1] = max_x - MirrorRun[j][1]
                /\ kwargs.spacing[1] >= 0 =>
                      placed[j].coords[2] = MirrorRun[j][2]

\* C8 witness: three pages pasted with angle -30 and reverse, at different x
\* and different y.
C8_Witness ==
    /\ NegativeReversedRun /\ n = 3 /\ kwargs.angle = -30
    /\ x_coords[2] > 0 /\ y_coords[1] > 0

\* C9 as stated: with a spacing and a border that are not negative, every
\* bordered page lies inside the canvas.  The runs with scale 0 are left out:
\* they are the subject of C10.
C9_CanvasContainsPages ==
    (/\ Composed /\ scale > 0
     /\ kwargs.spacing[1] >= 0 /\ kwargs.spacing[2] >= 0
     /\ kwargs.border >= 0) =>
        \A j \in 1..Len(placed) :
            /\ placed[j].coords[1] >= 0
            /\ placed[j].coords[2] >= 0
            /\ placed[j].size = <<docSize[1] + 2 * kwargs.border,
                                  docSize[2] + 2 * kwargs.border>>
            /\ placed[j].coords[1] + placed[j].size[1] <= size[1]
            /\ placed[j].coords[2] + placed[j].size[2] <= size[2]

\* C10 as stated: the scale is positive, and so is the canvas at angle 0.
C10_ScalePositive ==
    Composed =>
        /\ scale > 0
        /\ kwargs.angle = 0 => size[1] > 0 /\ size[2] > 0

====
